---- MODULE Spec2Model ----
(***************************************************************************)
(* A model of the siMpLify / ml_funnel orchestration code:                 *)
(*   - ml_funnel/data.py        Data (dataframe wrapper, dropped columns)   *)
(*   - simplify/core/base.py    SimpleLoader.load (lazy loading)            *)
(*   - simplify/core/author.py  Creator / Author (options, plans)           *)
(*   - simplify/core/project.py Project (draft, publish, apply)             *)
(* Each subsystem has its own specification over the shared variables.     *)
(* Names that a source file uses without importing them (ABC, product,     *)
(* ChefPackage, Dataset) are read as the objects they evidently denote;    *)
(* the model follows the statements of each method body.                   *)
(***************************************************************************)
EXTENDS Integers, Sequences, FiniteSets, TLC

VARIABLES
    df,               \* Data.df: sequence of columns [name, data]
    dropped_columns,  \* Data.dropped_columns
    verbose,          \* Data.verbose
    types,            \* the attributes Data.column_types sets (set = FALSE
                      \* while they do not exist)
    dataErr,          \* exception raised by the last Data call, or "none"
    settings,         \* Data.settings: the 'verbose' entry of 'general'
    filled,           \* the fillna calls of the smart_fill_na call that
                      \* has just ended
    loader,           \* a SimpleLoader instance (its attributes)
    loadResult,       \* what the last SimpleLoader.load call did
    imports,          \* number of import_module calls made so far
    loads,            \* number of load calls made so far
    creator,          \* the Creator / Author instance being constructed
    idea,             \* the settings section an Author reads techniques from
    plans,            \* what the last Author._build_techniques call returned
    project,          \* a Project instance
    twin,             \* the same Project built from settings that differ
                      \* only in 'parallelize', given the same calls
    codex,            \* a SimpleCodex instance (its attributes)
    builder,          \* a ParameterBuilder instance
    parameters,       \* a Parameters instance
    instance,         \* the __dict__ of a SimpleCodex instance that
                      \* proxify rewrites
    simplify          \* a Simplify controller instance

dataVars == <<df, dropped_columns, verbose, types, dataErr, settings, filled>>

loaderVars == <<loader, loadResult, imports, loads>>

authorVars == <<creator, idea, plans>>

projectVars == <<project, twin>>

contentVars == <<codex, builder, parameters, instance, simplify>>

vars == <<dataVars, loaderVars, authorVars, projectVars, contentVars>>

(***************************************************************************)
(* Bounds                                                                  *)
(***************************************************************************)
MaxDropped == 2

MaxArgLen == 1

MaxLoads == 2

MaxSteps == 2

MaxWorkers == 2

MaxCalls == 2

\* Longest list of techniques passed to a SimpleCodex.
MaxTechniques == 2

\* Longest list of parameter keys in outline.selected.
MaxSelected == 2

\* Calls of proxify on one instance.
MaxApplied == 2

(***************************************************************************)
(* Generic helpers                                                         *)
(***************************************************************************)
Range(s) == {s[i] : i \in 1..Len(s)}

IsPrefix(s, t) == Len(s) <= Len(t) /\ SubSeq(t, 1, Len(s)) = s

RECURSIVE Flatten(_)
Flatten(ss) == IF ss = <<>> THEN <<>> ELSE Head(ss) \o Flatten(Tail(ss))

(***************************************************************************)
(* Data: column names, their characters and the data they hold             *)
(***************************************************************************)
ColumnNames == {"ax", "ay", "b"}

Prefixes == {"", "a", "b"}

\* The characters of the strings the model uses (for str.startswith).
Chars(s) ==
    CASE s = "ax" -> <<"a", "x">>
      [] s = "ay" -> <<"a", "y">>
      [] s = "a"  -> <<"a">>
      [] s = "b"  -> <<"b">>
      [] OTHER    -> <<>>

StartsWith(x, prefix) == IsPrefix(Chars(prefix), Chars(x))

\* Column contents: "const" is a constant column (all False / 0 / ''),
\* "u" and "v" are two varying columns.  Mean is in percent.
Mean(d) == IF d = "const" THEN 0 ELSE 50

\* Absolute pairwise correlation in percent (NaN, for a constant column,
\* compares False with every threshold and is modelled as 0).
Corr(d, e) ==
    IF d = "const" \/ e = "const" THEN 0
    ELSE IF d = e THEN 100 ELSE 60

Col(n, d) == [name |-> n, data |-> d]

Files == {"f1", "f2"}

\* What pd.read_csv returns for each data file.
ReadFile(f) ==
    IF f = "f1" THEN <<Col("ax", "u"), Col("ay", "u"), Col("b", "const")>>
    ELSE <<Col("b", "v"), Col("ax", "u")>>

\* A dataframe a caller passes as the df argument instead of using self.df.
ExtDf == ReadFile("f1")

Columns(d) == [i \in 1..Len(d) |-> d[i].name]

HasCol(d, n) == n \in Range(Columns(d))

DataOf(d, n) == d[CHOOSE i \in 1..Len(d) : d[i].name = n].data

\* df[key] = value: replaces the column in place, or appends a new one.
SetCol(d, n, v) ==
    IF HasCol(d, n)
    THEN [i \in 1..Len(d) |-> IF d[i].name = n THEN Col(n, v) ELSE d[i]]
    ELSE Append(d, Col(n, v))

\* df.drop(labels, axis = 'columns'): KeyError when a label is missing.
DropLabels(d, labels) ==
    IF \E l \in Range(labels) : ~HasCol(d, l)
    THEN [err |-> "KeyError", df |-> d]
    ELSE [err |-> "none",
          df  |-> SelectSeq(d, LAMBDA c : c.name \notin Range(labels))]

(***************************************************************************)
(* Data: methods                                                           *)
(***************************************************************************)
\* The df argument of a Data method: absent (the method uses self.df and
\* stores the result in self.df) or a dataframe of the caller's.
NoDf == [given |-> FALSE, frame |-> <<>>]

PassedDf == [given |-> TRUE, frame |-> ExtDf]

DfArgs == {NoDf, PassedDf}

\* "if not isinstance(df, pd.DataFrame): df = self.df"
Target(sdf, arg) == IF arg.given THEN arg.frame ELSE sdf

\* "if not_df: self.df = df" (with inplace changes, self.df is df itself).
Stored(sdf, arg, d) == IF arg.given THEN sdf ELSE d

Outcome(d, dc, e) == [df |-> d, dropped |-> dc, err |-> e]

\* Data._set_defaults: the verbose attribute from settings['general'].
set_defaults_verbose(setting) == IF setting THEN setting ELSE TRUE

RECURSIVE PrefixMatches(_, _)
PrefixMatches(d, prefixes) ==
    IF prefixes = <<>> THEN <<>>
    ELSE SelectSeq(Columns(d), LAMBDA x : StartsWith(x, Head(prefixes)))
            \o PrefixMatches(d, Tail(prefixes))

create_column_list(d, prefixes, cols) == cols \o PrefixMatches(d, prefixes)

\* drop_cols as it would be if it assigned the list instead of extending it.
drop_cols_assign(sdf, dc, arg, prefixes, cols) ==
    LET d  == Target(sdf, arg)
        cl == create_column_list(d, prefixes, cols)
        r  == DropLabels(d, cl)
    IN  IF r.err # "none" THEN Outcome(sdf, dc, r.err)
        ELSE Outcome(Stored(sdf, arg, r.df), cl, "none")

drop_cols(sdf, dc, arg, prefixes, cols) ==
    LET d  == Target(sdf, arg)
        cl == create_column_list(d, prefixes, cols)
        r  == DropLabels(d, cl)
    IN  IF r.err # "none" THEN Outcome(sdf, dc, r.err)
        ELSE Outcome(Stored(sdf, arg, r.df), dc \o cl, "none")

\* The loop of drop_infrequent_cols; it ends with the frame it reached
\* when df[col] raises KeyError.
RECURSIVE InfrequentLoop(_, _, _, _)
InfrequentLoop(d, dc, bools, threshold) ==
    IF bools = <<>> THEN Outcome(d, dc, "none")
    ELSE LET col == Head(bools) IN
         IF ~HasCol(d, col) THEN Outcome(d, dc, "KeyError")
         ELSE IF Mean(DataOf(d, col)) < threshold
              THEN InfrequentLoop(DropLabels(d, <<col>>).df, Append(dc, col),
                                  Tail(bools), threshold)
              ELSE InfrequentLoop(d, dc, Tail(bools), threshold)

drop_infrequent_cols(sdf, dc, arg, bools, threshold) ==
    LET r == InfrequentLoop(Target(sdf, arg), dc, bools, threshold)
    IN  Outcome(Stored(sdf, arg, r.df), r.dropped, r.err)

\* Columns with an entry above the threshold in the strict upper triangle
\* of the correlation matrix: some earlier column correlates with them.
UpperTriangleDrops(d, threshold) ==
    LET hit(i) == \E r \in 1..(i - 1) : Corr(d[r].data, d[i].data) > threshold
        RECURSIVE From(_)
        From(i) == IF i > Len(d) THEN <<>>
                   ELSE (IF hit(i) THEN <<d[i].name>> ELSE <<>>) \o From(i + 1)
    IN  From(1)

\* cols is only iterated over: 'upper' is bound iff cols is not empty.
drop_highly_correlated_cols(sdf, dc, arg, all, cols, threshold) ==
    LET d     == Target(sdf, arg)
        cs    == IF all THEN Columns(d) ELSE cols
        drops == UpperTriangleDrops(d, threshold)
    IN  IF cs = <<>> THEN Outcome(sdf, dc, "UnboundLocalError")
        ELSE Outcome(Stored(sdf, arg, DropLabels(d, drops).df),
                     dc \o drops, "none")

\* The loop of initialize_series over column_dict.items(); a list default
\* ("df[key] = []") is rejected by pandas with ValueError.
RECURSIVE InitializeLoop(_, _)
InitializeLoop(d, items) ==
    IF items = <<>> THEN [df |-> d, err |-> "none"]
    ELSE LET key == Head(items)[1]
             typ == Head(items)[2]
         IN  IF typ = "list" THEN [df |-> d, err |-> "ValueError"]
             ELSE IF typ \in {"bool", "int", "str", "float"}
                  THEN InitializeLoop(SetCol(d, key, "const"), Tail(items))
                  ELSE InitializeLoop(d, Tail(items))

\* column_dict: [given |-> FALSE] is the default None.
initialize_series(sdf, dc, arg, column_dict) ==
    IF ~column_dict.given THEN Outcome(sdf, dc, "AttributeError")
    ELSE LET r == InitializeLoop(Target(sdf, arg), column_dict.items)
         IN  Outcome(Stored(sdf, arg, r.df), dc, r.err)

\* Functions a caller may pass to Data.apply.
Funcs == {"none", "add_ay", "first_only"}

CallFunc(func, d) ==
    CASE func = "add_ay"     -> SetCol(d, "ay", "v")
      [] func = "first_only" -> SubSeq(d, 1, IF Len(d) > 0 THEN 1 ELSE 0)
      [] OTHER               -> d

apply(sdf, dc, arg, func) ==
    LET d == Target(sdf, arg)
        r == IF func # "none" THEN CallFunc(func, d) ELSE d
    IN  Outcome(IF arg.given THEN sdf ELSE r, dc, "none")

load(sdf, dc, file, return_df) ==
    Outcome(IF return_df THEN sdf ELSE ReadFile(file), dc, "none")

\* dict as a sequence of <<key, value>> pairs in insertion order.
DictSet(dict, key, value) ==
    IF \E i \in 1..Len(dict) : dict[i][1] = key
    THEN [i \in 1..Len(dict) |->
            IF dict[i][1] = key THEN <<key, value>> ELSE dict[i]]
    ELSE Append(dict, <<key, value>>)

\* dict.update(dict.fromkeys(keys, value))
RECURSIVE UpdateFromKeys(_, _, _)
UpdateFromKeys(dict, keys, value) ==
    IF keys = <<>> THEN dict
    ELSE UpdateFromKeys(DictSet(dict, Head(keys), value), Tail(keys), value)

BucketNames == {"bool", "cat", "float", "int", "interact", "list", "str"}

\* The attributes of a Data instance before column_types has run.
NoTypes ==
    [set |-> FALSE, bool_cols |-> <<>>, cat_cols |-> <<>>,
     float_cols |-> <<>>, int_cols |-> <<>>, interact_cols |-> <<>>,
     list_cols |-> <<>>, str_cols |-> <<>>, num_cols |-> <<>>,
     all_cols |-> <<>>, column_dict |-> <<>>]

\* cols and prefixes map each bucket name to the list passed for it.
column_types(sdf, arg, cols, prefixes) ==
    LET d == Target(sdf, arg)
        list(b) == create_column_list(d, prefixes[b], cols[b])
        d1 == UpdateFromKeys(<<>>, list("bool"), "bool")
        d2 == UpdateFromKeys(d1, list("cat"), "category")
        d3 == UpdateFromKeys(d2, list("float"), "float")
        d4 == UpdateFromKeys(d3, list("int"), "int")
        d5 == UpdateFromKeys(d4, list("interact"), "category")
        d6 == UpdateFromKeys(d5, list("str"), "str")
    IN  [set |-> TRUE,
         bool_cols |-> list("bool"), cat_cols |-> list("cat"),
         float_cols |-> list("float"), int_cols |-> list("int"),
         interact_cols |-> list("interact"), list_cols |-> list("list"),
         str_cols |-> list("str"),
         num_cols |-> list("float") \o list("int"),
         all_cols |-> Columns(d),
         column_dict |-> d6]

\* The datatype pandas infers for the columns of the data files.
Dtype(name) ==
    CASE name = "ax" -> "bool"
      [] name = "ay" -> "float"
      [] OTHER       -> "object"

\* df[col].fillna(value, ...)
Fill(col, value) == [col |-> col, value |-> value]

NoFill == [called |-> FALSE, given |-> FALSE, calls |-> <<>>]

\* The first loop of smart_fill_na, over column_dict from item i on.
\* astype_kwargs: whether Series.astype of the installed pandas takes the
\* keyword 'inplace'; fillna takes no list as value.
RECURSIVE FillByDict(_, _, _, _, _)
FillByDict(d, dict, i, calls, astype_kwargs) ==
    IF i > Len(dict) THEN [calls |-> calls, err |-> "none"]
    ELSE LET col  == dict[i][1]
             type == dict[i][2]
             cast(value) ==
                IF astype_kwargs
                THEN FillByDict(d, dict, i + 1,
                                Append(calls, Fill(col, value)),
                                astype_kwargs)
                ELSE [calls |-> Append(calls, Fill(col, value)),
                      err |-> "TypeError"]
             next(value) ==
                FillByDict(d, dict, i + 1, Append(calls, Fill(col, value)),
                           astype_kwargs)
         IN  IF ~HasCol(d, col)
             THEN FillByDict(d, dict, i + 1, calls, astype_kwargs)
             ELSE CASE type = "bool"     -> cast("False")
                    [] type = "int"      -> next("0")
                    [] type = "float"    -> next("0.0")
                    [] type = "list"     -> [calls |-> calls,
                                             err |-> "TypeError"]
                    [] type = "str"      -> cast("''")
                    [] type = "category" -> cast("''")
                    [] OTHER -> FillByDict(d, dict, i + 1, calls,
                                           astype_kwargs)

\* The second loop of smart_fill_na, over df.columns by inferred datatype.
RECURSIVE FillByDtype(_, _, _)
FillByDtype(d, i, calls) ==
    IF i > Len(d) THEN [calls |-> calls, err |-> "none"]
    ELSE LET col == d[i].name
             next(value) == FillByDtype(d, i + 1,
                                        Append(calls, Fill(col, value)))
         IN  CASE Dtype(col) = "bool"  -> next("False")
               [] Dtype(col) = "int"   -> next("0")
               [] Dtype(col) = "float" -> next("0")
               [] OTHER -> FillByDtype(d, i + 1, calls)

\* Data.smart_fill_na: 'self.column_dict' is read first, an attribute that
\* exists only once column_types has run.
smart_fill_na(sdf, tps, arg, astype_kwargs) ==
    LET d == Target(sdf, arg)
    IN  IF ~tps.set
        THEN [calls |-> <<>>, err |-> "AttributeError"]
        ELSE IF tps.column_dict # <<>>
        THEN FillByDict(d, tps.column_dict, 1, <<>>, astype_kwargs)
        ELSE FillByDtype(d, 1, <<>>)

(***************************************************************************)
(* SimpleLoader: the importable modules and the load method                *)
(***************************************************************************)
\* Attribute values: a string naming an object, a loaded object, or no
\* such attribute.
Str(n) == [kind |-> "str", id |-> n]

Obj(n) == [kind |-> "obj", id |-> n]

Absent == [kind |-> "absent", id |-> ""]

Components == {"algorithm", "parameters"}

\* The names each importable module defines; a module outside the domain
\* makes import_module raise ImportError.
ModuleContents ==
    [m \in {"pkg.steps", "simplify.core"} |->
        IF m = "pkg.steps" THEN {"Found"} ELSE {"Generic", "Fallback"}]

ObjectNames == {"Found", "Generic", "Fallback", "Nowhere"}

\* getattr(import_module(module), name): the object, or the exception.
ImportAttr(module, name) ==
    IF module \notin DOMAIN ModuleContents
    THEN [ok |-> FALSE, exc |-> "ImportError", value |-> Absent]
    ELSE IF name \notin ModuleContents[module]
         THEN [ok |-> FALSE, exc |-> "AttributeError", value |-> Absent]
         ELSE [ok |-> TRUE, exc |-> "none", value |-> Obj(name)]

Returned(c, v, n) ==
    [kind |-> "returned", component |-> c, value |-> v, exc |-> "none",
     imported |-> n]

Raised(c, e, n) ==
    [kind |-> "raised", component |-> c, value |-> Absent, exc |-> e,
     imported |-> n]

NoResult ==
    [kind |-> "none", component |-> "", value |-> Absent, exc |-> "none",
     imported |-> 0]

\* SimpleLoader.load(component) on instance self; 'imported' counts the
\* import_module calls the call makes.
SimpleLoader_load(self, component) ==
    LET attr   == self.attrs[component]
        first  == ImportAttr(self.module, attr.id)
        second == ImportAttr(self.default_module, attr.id)
    IN  IF attr.kind = "absent" THEN Raised(component, "AttributeError", 0)
        ELSE IF attr.kind # "str" THEN Returned(component, attr, 0)
        ELSE IF first.ok THEN Returned(component, first.value, 1)
        ELSE IF second.ok THEN Returned(component, second.value, 2)
        ELSE IF self.default_module \notin DOMAIN ModuleContents
             THEN Raised(component, "ImportError", 3)
        ELSE IF ~self.has_default_components
             THEN Raised(component, "ImportError", 3)
        ELSE IF component \notin DOMAIN self.default_components
             THEN Raised(component, "KeyError", 3)
        ELSE LET third == ImportAttr(self.default_module,
                                     self.default_components[component])
             IN  IF third.ok THEN Returned(component, third.value, 3)
                 ELSE Raised(component, "ImportError", 3)

AttrValues == {Absent, Obj("Found")} \cup {Str(n) : n \in {"Found", "Generic", "Nowhere"}}

\* default_components: a dict from component to the name of its default.
DefaultComponents ==
    {[c \in D |-> n] : D \in {{}, {"algorithm"}}, n \in {"Fallback", "Nowhere"}}

Loaders ==
    [module : {"pkg.steps", "pkg.missing"},
     default_module : {"simplify.core"},
     attrs : [Components -> AttrValues],
     has_default_components : BOOLEAN,
     default_components : DefaultComponents]

\* The loader part of the state while another object is exercised.
LoaderIdle ==
    /\ loader = [module |-> "pkg.steps", default_module |-> "simplify.core",
                 attrs |-> [c \in Components |-> Absent],
                 has_default_components |-> FALSE,
                 default_components |-> [c \in {} |-> "Nowhere"]]
    /\ loadResult = NoResult
    /\ imports = 0
    /\ loads = 0

(***************************************************************************)
(* Creator and Author: options and construction                            *)
(***************************************************************************)
\* Values of the options argument: the default (an empty dict), a dict or
\* a CodexOptions instance of the caller's.
NoOptions == [kind |-> "dict", of |-> "empty"]

UserDict == [kind |-> "dict", of |-> "user"]

UserCodex == [kind |-> "CodexOptions", of |-> "user"]

\* CodexOptions(options = DEFAULT_OPTIONS) of a package's module.
DefaultCodex(package) == [kind |-> "CodexOptions", of |-> package]

\* What Author.draft assigns: {'chef': ChefPackage}.
AuthorDraftOptions == [kind |-> "dict", of |-> "author defaults"]

Truthy(options) == options # NoOptions

NoPackage == "None"

\* The keys of the packages dict that Creator.draft creates.
KnownPackages == {"farmer", "chef", "actuary", "critic", "artist"}

PackageArgs == {NoPackage, "farmer", "chef", "wrangler"}

\* Creator._validate_options: the returned options or the exception.
\* The first branch reads the local name 'options' before any assignment;
\* in the second, self.packages exists only once draft has run, and
\* getattr looks DEFAULT_OPTIONS up on the module path string.
Creator_validate_options(self) ==
    IF Truthy(self.options)
    THEN [exc |-> "UnboundLocalError", options |-> self.options]
    ELSE IF self.package # NoPackage
         THEN IF ~self.has_packages
              THEN [exc |-> "AttributeError", options |-> self.options]
              ELSE IF self.package \notin KnownPackages
                   THEN [exc |-> "KeyError", options |-> self.options]
                   ELSE [exc |-> "AttributeError", options |-> self.options]
         ELSE [exc |-> "AttributeError", options |-> self.options]

Creator_draft(self) ==
    [self EXCEPT !.has_packages = TRUE, !.drafted = TRUE,
                 !.ran = Append(@, "draft")]

Author_draft(self) ==
    [self EXCEPT !.options = AuthorDraftOptions, !.drafted = TRUE,
                 !.ran = Append(@, "draft")]

Fail(self, e) == [self EXCEPT !.status = "raised", !.exc = e]

\* Creator.__post_init__ from its second statement on: draft, then publish
\* when auto_publish is set (Creator defines no publish method; Author's
\* reads self.creators, which nothing sets).
Creator_draft_publish(self) ==
    LET d == IF self.cls = "Author" THEN Author_draft(self)
             ELSE Creator_draft(self)
    IN  IF d.auto_publish
        THEN IF self.cls = "Author"
             THEN Fail([d EXCEPT !.ran = Append(@, "publish")],
                       "AttributeError")
             ELSE Fail(d, "AttributeError")
        ELSE [d EXCEPT !.status = "constructed"]

\* __post_init__ as it would be if draft ran before the options are
\* validated.
Creator_post_init_draft_first(self) ==
    LET d == Creator_draft(self)
        v == Creator_validate_options(d)
    IN  IF v.exc # "none" THEN Fail(d, v.exc)
        ELSE IF d.auto_publish THEN Fail(d, "AttributeError")
        ELSE [d EXCEPT !.options = v.options, !.status = "constructed"]

Creator_post_init(self) ==
    LET v == Creator_validate_options(self)
    IN  IF v.exc # "none" THEN Fail(self, v.exc)
        ELSE Creator_draft_publish([self EXCEPT !.options = v.options])

\* Author.__post_init__ passes options = ... to _validate_options, which
\* takes no argument: the call raises TypeError.
Author_post_init(self) == Fail(self, "TypeError")

post_init(self) ==
    IF self.cls = "Author" THEN Author_post_init(self)
    ELSE Creator_post_init(self)

\* The dataclass fields before __post_init__ runs.
NewCreator(cls, package, options, auto_publish) ==
    [cls |-> cls, package |-> package, passed |-> options,
     options |-> options, auto_publish |-> auto_publish,
     has_packages |-> FALSE, drafted |-> FALSE, ran |-> <<>>,
     status |-> "new", exc |-> "none"]

NoCreator == NewCreator("none", NoPackage, NoOptions, FALSE)

(***************************************************************************)
(* Author._build_techniques                                                *)
(***************************************************************************)
StepNames == {"scale", "model"}

\* A settings value: no such key, one technique name, or a list of them.
Missing == [kind |-> "missing", items |-> <<>>]

One(t) == [kind |-> "str", items |-> <<t>>]

Many(ts) == [kind |-> "list", items |-> ts]

TechniqueSettings == {Missing, One("a"), Many(<<"a", "b">>), Many(<<"c">>)}

\* utilities.listify: a list is kept, any other value becomes a one-item
\* list.
listify(value) == value.items

\* itertools.product(*lists) as a list of lists, last list varying fastest.
RECURSIVE product(_)
product(lists) ==
    IF lists = <<>> THEN << <<>> >>
    ELSE LET rest == product(Tail(lists))
             first == Head(lists)
         IN  Flatten([i \in 1..Len(first) |->
                        [j \in 1..Len(rest) |-> <<first[i]>> \o rest[j]]])

\* Possibilities as it would be if a missing key contributed no technique.
Possibilities_skip(section, steps) ==
    [i \in 1..Len(steps) |->
        IF ~section.present \/ section.keys[steps[i]] = Missing
        THEN <<>>
        ELSE listify(section.keys[steps[i]])]

\* The loop of _build_techniques: a KeyError (the section or the key
\* '<step>_techniques' is missing) contributes ['none'].
Possibilities(section, steps) ==
    [i \in 1..Len(steps) |->
        IF ~section.present \/ section.keys[steps[i]] = Missing
        THEN <<"none">>
        ELSE listify(section.keys[steps[i]])]

build_techniques(section, steps) == product(Possibilities(section, steps))

StepLists == UNION {[1..n -> StepNames] : n \in 0..MaxSteps}

Sections == [present : BOOLEAN, keys : [StepNames -> TechniqueSettings]]

NoPlans == [built |-> FALSE, steps |-> <<>>, plans |-> <<>>]

\* The Creator / Author part of the state while another object is exercised.
AuthorIdle ==
    /\ creator = NoCreator
    /\ idea = [present |-> FALSE, keys |-> [st \in StepNames |-> Missing]]
    /\ plans = NoPlans

(***************************************************************************)
(* Project: workers, library and the draft / publish / apply methods       *)
(***************************************************************************)
WorkerNames == {"wrangler", "analyst", "critic"}

Event(op, name) == [op |-> op, worker |-> name]

\* The library as the ordered mapping it iterates as: worker name -> the
\* stage of that worker's book.
Book(name, stage) == [name |-> name, stage |-> stage]

InLibrary(library, name) == \E i \in 1..Len(library) : library[i].name = name

PutBook(library, name, stage) ==
    IF InLibrary(library, name)
    THEN [i \in 1..Len(library) |->
            IF library[i].name = name THEN Book(name, stage) ELSE library[i]]
    ELSE Append(library, Book(name, stage))

\* worker.publisher.draft(library): a Book for the worker is created.
publisher_draft(library, name) ==
    IF InLibrary(library, name) THEN library
    ELSE PutBook(library, name, "drafted")

\* worker.publisher.publish(library): the worker's Book is finalized.
publisher_publish(library, name) == PutBook(library, name, "published")

\* workers[name].apply(data, library): the worker's Book is applied to the
\* dataset, which records the worker.
worker_apply(dataset, library, name) ==
    [dataset |-> [dataset EXCEPT !.applied = Append(@, name)],
     library |-> PutBook(library, name, "applied")]

\* Dataset(data = ..., idea = ...)
Dataset(source) == [source |-> source, applied |-> <<>>]

\* Project._initialize_workers: the names passed or, when none is passed,
\* the 'project_workers' setting (a missing key leaves the workers empty).
initialize_workers(workers, setting) ==
    IF workers # <<>> THEN workers
    ELSE IF setting.kind = "missing" THEN <<>> ELSE listify(setting)

\* Project.draft: one publisher.draft per worker, in manager order.
RECURSIVE DraftLoop(_, _)
DraftLoop(self, i) ==
    IF i > Len(self.workers) THEN self
    ELSE DraftLoop(
            [self EXCEPT
                !.library = publisher_draft(@, self.workers[i]),
                !.log = Append(@, Event("draft", self.workers[i]))],
            i + 1)

Project_draft(self) == DraftLoop(self, 1)

\* Project.publish: one publisher.publish per worker, in manager order.
RECURSIVE PublishLoop(_, _)
PublishLoop(self, i) ==
    IF i > Len(self.workers) THEN self
    ELSE PublishLoop(
            [self EXCEPT
                !.library = publisher_publish(@, self.workers[i]),
                !.log = Append(@, Event("publish", self.workers[i]))],
            i + 1)

Project_publish(self) == PublishLoop(self, 1)

\* One call self.workers[name].apply(data, library) and what it returned.
WorkerCall(name, dataset, library, result) ==
    [worker |-> name, data |-> dataset, library |-> library,
     result |-> result]

\* apply begins: the stored dataset and the data argument are noted.
ApplyBegins(self, data) ==
    [self EXCEPT !.stored = self.dataset, !.data = data,
                 !.applications = <<>>]

\* A loop in which every worker receives the dataset and the library
\* that the first worker received.
RECURSIVE StaleLoop(_, _, _, _)
StaleLoop(self, first, names, i) ==
    IF i > Len(names) THEN self
    ELSE LET r == worker_apply(first.dataset, first.library, names[i])
         IN  StaleLoop(
                [self EXCEPT
                    !.dataset = r.dataset,
                    !.library = r.library,
                    !.log = Append(@, Event("apply", names[i])),
                    !.applications =
                        Append(@, WorkerCall(names[i], first.dataset,
                                             first.library, r))],
                first, names, i + 1)

\* The loop of Project.apply over the books the library held when the
\* loop began.
RECURSIVE ApplyLoop(_, _, _)
ApplyLoop(self, names, i) ==
    IF i > Len(names) THEN self
    ELSE LET r == worker_apply(self.dataset, self.library, names[i])
         IN  ApplyLoop(
                [self EXCEPT
                    !.dataset = r.dataset,
                    !.library = r.library,
                    !.log = Append(@, Event("apply", names[i])),
                    !.applications =
                        Append(@, WorkerCall(names[i], self.dataset,
                                             self.library, r))],
                names, i + 1)

BookNames(library) == [i \in 1..Len(library) |-> library[i].name]

\* Project.apply as it would be if 'parallelize' selected another order.
Project_apply_parallel(self, data) ==
    LET begun == ApplyBegins(self, data)
        start == IF data.given
                 THEN [begun EXCEPT !.dataset = Dataset(data.source)]
                 ELSE begun
        names == BookNames(start.library)
    IN  IF self.parallelize
        THEN ApplyLoop(start,
                       [k \in 1..Len(names) |-> names[Len(names) + 1 - k]], 1)
        ELSE ApplyLoop(start, names, 1)

\* Project.apply as it would be if the workers' results were not handed
\* on from one worker to the next.
Project_apply_stale(self, data) ==
    LET begun == ApplyBegins(self, data)
        start == IF data.given
                 THEN [begun EXCEPT !.dataset = Dataset(data.source)]
                 ELSE begun
    IN  StaleLoop(start, start, BookNames(start.library), 1)

\* data: [given |-> FALSE] when apply is called without data.
Project_apply(self, data) ==
    LET begun == ApplyBegins(self, data)
        start == IF data.given
                 THEN [begun EXCEPT !.dataset = Dataset(data.source)]
                 ELSE begun
    IN  ApplyLoop(start, BookNames(start.library), 1)

NoData == [given |-> FALSE, source |-> "none"]

\* __post_init__ as it would be if it published before drafting.
Project_post_init_swapped(self) ==
    LET created   == [self EXCEPT !.library = <<>>,
                                  !.log = Append(@, Event("library", "none"))]
        published == IF created.auto_publish THEN Project_publish(created)
                     ELSE created
        drafted   == IF published.auto_draft THEN Project_draft(published)
                     ELSE published
        applied   == IF drafted.auto_apply THEN Project_apply(drafted, NoData)
                     ELSE drafted
    IN  [applied EXCEPT !.status = "constructed"]

\* Project.__post_init__ once idea, filer, dataset and workers are set:
\* the library is created, then the selected methods run.
Project_post_init(self) ==
    LET created   == [self EXCEPT !.library = <<>>,
                                  !.log = Append(@, Event("library", "none"))]
        drafted   == IF created.auto_draft THEN Project_draft(created)
                     ELSE created
        published == IF drafted.auto_publish THEN Project_publish(drafted)
                     ELSE drafted
        applied   == IF published.auto_apply
                     THEN Project_apply(published, NoData)
                     ELSE published
    IN  [applied EXCEPT !.status = "constructed"]

\* Project.__call__: auto_apply is set, and the method it then names,
\* '__post__init', is no attribute of a Project.
Project_call(self) ==
    [self EXCEPT !.auto_apply = TRUE, !.exc = "AttributeError"]

\* The argument 'attribute' of save: a string, or the object itself (named
\* here by the attribute that holds it).
StrArg(name) == [kind |-> "str", name |-> name]

ObjArg(name) == [kind |-> "object", name |-> name]

NoAttribute == [kind |-> "none", name |-> "none"]

ProjectAttrs ==
    {"idea", "filer", "dataset", "workers", "name", "identification",
     "auto_draft", "auto_publish", "auto_apply", "overview", "library"}

\* The attributes of the manager are its workers, those of the library
\* its books.
ManagerAttrs(self) == Range(self.workers)

LibraryAttrs(self) == Range(BookNames(self.library))

\* The three nested getattr of save: where the name is found.
Lookup(self, name) ==
    IF name \in ProjectAttrs THEN "project"
    ELSE IF name \in ManagerAttrs(self) THEN "manager"
    ELSE IF name \in LibraryAttrs(self) THEN "library"
    ELSE "AttributeError"

\* filer.save(attribute)
filer_save(self, name) ==
    [self EXCEPT !.log = Append(@, Event("save", name))]

\* Project.save: a string is looked up and the value bound to the local
\* name only; when the three lookups fail an AttributeError is built and
\* dropped. Only an argument that is no string reaches filer.save.
Project_save(self, attribute) ==
    LET arg == [self EXCEPT !.attribute = attribute]
    IN  IF attribute.kind = "str"
        THEN IF Lookup(self, attribute.name) = "AttributeError"
             THEN arg
             ELSE arg
        ELSE filer_save(arg, attribute.name)

\* The fields of a Project when __post_init__ starts; idea.inject copies
\* the 'general' settings (among them 'parallelize') onto the instance.
NewProject(workers, setting, parallelize, flags) ==
    [status |-> "new",
     workers |-> initialize_workers(workers, setting),
     parallelize |-> parallelize,
     auto_draft |-> flags[1], auto_publish |-> flags[2],
     auto_apply |-> flags[3],
     dataset |-> Dataset("init"),
     library |-> <<>>,
     log |-> <<>>,
     calls |-> 0,
     last |-> "none", mark |-> 0, exc |-> "none",
     attribute |-> NoAttribute,
     stored |-> Dataset("init"), data |-> [given |-> FALSE, source |-> "none"],
     applications |-> <<>>]

NoProject == NewProject(<<>>, Missing, TRUE, <<FALSE, FALSE, FALSE>>)

WorkerLists ==
    {ws \in UNION {[1..n -> WorkerNames] : n \in 0..MaxWorkers} :
        \A i, j \in 1..Len(ws) : i # j => ws[i] # ws[j]}

\* The Project part of the state while another object is exercised.
ProjectIdle ==
    /\ project = NoProject
    /\ twin = NoProject

(***************************************************************************)
(* SimpleCodex: techniques and apply                                       *)
(***************************************************************************)
CodexNames == {"chef", "farmer"}

TechniqueNames == {"pca", "ols"}

TechniqueLists == UNION {[1..n -> TechniqueNames] : n \in 0..MaxTechniques}

\* techniques = None
NoTechniques == [kind |-> "None", items |-> <<>>]

\* The techniques argument: None, one name or a list of names.
TechniqueArgs ==
    {NoTechniques} \cup {One(t) : t \in TechniqueNames}
        \cup {Many(ts) : ts \in TechniqueLists}

\* The attributes of the Idea instance that a codex may look up.
IdeaKeys ==
    {"chef_steps", "chef_techniques", "farmer_steps", "farmer_techniques"}

IdeaValues == {Missing, One("pca"), Many(<<"ols", "pca">>)}

Ideas == [IdeaKeys -> IdeaValues]

\* getattr(self.idea, key) raises AttributeError.
NoAttr(settings_idea, key) ==
    key \notin DOMAIN settings_idea \/ settings_idea[key] = Missing

\* _draft_techniques as it would be if '<name>_techniques' were looked up
\* before '<name>_steps'.
draft_techniques_swapped(self) ==
    LET steps      == self.name \o "_steps"
        techniques == self.name \o "_techniques"
    IN  IF self.techniques = NoTechniques
        THEN IF ~NoAttr(self.idea, techniques)
             THEN [self EXCEPT !.compare = TRUE,
                               !.techniques = self.idea[techniques],
                               !.status = "drafted"]
             ELSE IF ~NoAttr(self.idea, steps)
             THEN [self EXCEPT !.compare = FALSE,
                               !.techniques = self.idea[steps],
                               !.status = "drafted"]
             ELSE [self EXCEPT !.compare = TRUE,
                               !.techniques = Many(<<"none">>),
                               !.status = "drafted"]
        ELSE [self EXCEPT !.compare = FALSE,
                          !.techniques = Many(listify(self.techniques)),
                          !.status = "drafted"]

\* SimpleCodex._draft_techniques: 'compare' tells that the techniques came
\* from the '<name>_techniques' lookup (or from its failure).
draft_techniques(self) ==
    LET steps      == self.name \o "_steps"
        techniques == self.name \o "_techniques"
    IN  IF self.techniques = NoTechniques
        THEN IF ~NoAttr(self.idea, steps)
             THEN [self EXCEPT !.compare = FALSE,
                               !.techniques = self.idea[steps],
                               !.status = "drafted"]
             ELSE IF ~NoAttr(self.idea, techniques)
             THEN [self EXCEPT !.compare = TRUE,
                               !.techniques = self.idea[techniques],
                               !.status = "drafted"]
             ELSE [self EXCEPT !.compare = TRUE,
                               !.techniques = Many(<<"none">>),
                               !.status = "drafted"]
        ELSE [self EXCEPT !.compare = FALSE,
                          !.techniques = Many(listify(self.techniques)),
                          !.status = "drafted"]

\* The letters a for loop over a technique name yields.
Letters(t) ==
    CASE t = "pca" -> <<"p", "c", "a">>
      [] t = "ols" -> <<"o", "l", "s">>
      [] OTHER     -> <<t>>

\* What "for technique in self.techniques" iterates over.
Iterate(value) ==
    IF value.kind = "str" THEN Letters(value.items[1]) ELSE value.items

\* self.options[technique].options.apply(key = technique, data = data):
\* the data returned records the technique applied to it.
option_apply(key, data) == Append(data, key)

Application(key, data) ==
    [key |-> key, data |-> data, result |-> option_apply(key, data)]

\* A loop in which every technique receives the data apply was given.
RECURSIVE UnchainedLoop(_, _, _, _)
UnchainedLoop(self, items, i, data) ==
    IF i > Len(items)
    THEN [self EXCEPT !.returned = data, !.status = "applied"]
    ELSE IF items[i] \notin self.options
    THEN [self EXCEPT !.exc = "KeyError", !.status = "applied"]
    ELSE UnchainedLoop(
            [self EXCEPT
                !.calls = Append(@, Application(items[i], self.given))],
            items, i + 1, option_apply(items[i], self.given))

\* The loop of SimpleCodex.apply from item i on; a technique that is no
\* key of options ends it with KeyError.
RECURSIVE ApplyTechniques(_, _, _, _)
ApplyTechniques(self, items, i, data) ==
    IF i > Len(items)
    THEN [self EXCEPT !.returned = data, !.status = "applied"]
    ELSE IF items[i] \notin self.options
    THEN [self EXCEPT !.exc = "KeyError", !.status = "applied"]
    ELSE ApplyTechniques(
            [self EXCEPT !.calls = Append(@, Application(items[i], data))],
            items, i + 1, option_apply(items[i], data))

NotReturned == <<"nothing returned">>

\* apply as it would be if the data were not handed from one technique
\* to the next.
Codex_apply_unchained(self, data) ==
    UnchainedLoop(
        [self EXCEPT !.calls = <<>>, !.given = data, !.exc = "none",
                     !.returned = NotReturned],
        Iterate(self.techniques), 1, data)

\* SimpleCodex.apply(data)
Codex_apply(self, data) ==
    ApplyTechniques(
        [self EXCEPT !.calls = <<>>, !.given = data, !.exc = "none",
                     !.returned = NotReturned],
        Iterate(self.techniques), 1, data)

\* The attributes of a codex before _draft_techniques runs.
NewCodex(name, techniques, settings_idea, options) ==
    [status |-> "new", name |-> name, passed |-> techniques,
     techniques |-> techniques, compare |-> FALSE, idea |-> settings_idea,
     options |-> options, calls |-> <<>>, given |-> <<>>,
     returned |-> NotReturned, exc |-> "none"]

NoCodex ==
    NewCodex("none", NoTechniques, [k \in IdeaKeys |-> Missing], {})

(***************************************************************************)
(* ParameterBuilder: the parameter bunch                                   *)
(***************************************************************************)
\* dict.keys() and dict[key] of a dict kept as <<key, value>> pairs.
Keys(dict) == {dict[i][1] : i \in 1..Len(dict)}

Get(dict, key) == dict[CHOOSE i \in 1..Len(dict) : dict[i][1] = key][2]

\* dict.update(other)
RECURSIVE DictUpdate(_, _)
DictUpdate(dict, other) ==
    IF other = <<>> THEN dict
    ELSE DictUpdate(DictSet(dict, Head(other)[1], Head(other)[2]),
                    Tail(other))

\* An attribute that may not exist, or an argument that may be None.
Nothing == [given |-> FALSE, dict |-> <<>>]

Dict(d) == [given |-> TRUE, dict |-> d]

ParamKeys == {"alpha", "depth", "seed"}

\* outline.selected: None, True or a list of parameter keys.
SelectedNone == [kind |-> "None", items |-> <<>>]

SelectedTrue == [kind |-> "True", items |-> <<>>]

SelectedList(keys) == [kind |-> "list", items |-> keys]

\* "if outline.selected:"
Selecting(selected) ==
    selected.kind = "True" \/ (selected.kind = "list" /\ selected.items # <<>>)

\* ParameterBuilder._build_idea
build_idea(self, outline) ==
    IF self.idea_parameters.given
    THEN [self EXCEPT !.bunch = DictUpdate(<<>>, self.idea_parameters.dict)]
    ELSE [self EXCEPT !.bunch = <<>>]

\* _build_selected as it would be if it kept every parameter.
build_selected_all(self, outline) == self

\* ParameterBuilder._build_selected
build_selected(self, outline) ==
    IF Selecting(outline.selected)
    THEN LET parameters_to_use ==
                IF outline.selected.kind = "list"
                THEN Range(outline.selected.items)
                ELSE Keys(outline.default)
         IN  [self EXCEPT !.bunch =
                SelectSeq(@, LAMBDA item : item[1] \in parameters_to_use)]
    ELSE self

\* ParameterBuilder._build_required: update(None) is a TypeError, passed.
build_required(self, outline) ==
    IF outline.required.given
    THEN [self EXCEPT !.bunch = DictUpdate(@, outline.required.dict)]
    ELSE self

\* The loop of _build_runtime from item i on. When self.author or the
\* attribute is missing, the handler's ' '.join(...) with four arguments
\* raises TypeError, which the outer handler passes: the loop ends.
RECURSIVE RuntimeLoop(_, _, _, _)
RuntimeLoop(bunch, runtime, i, author) ==
    IF i > Len(runtime) THEN bunch
    ELSE IF ~author.given \/ runtime[i][2] \notin Keys(author.dict)
    THEN bunch
    ELSE RuntimeLoop(
            DictSet(bunch, runtime[i][1], Get(author.dict, runtime[i][2])),
            runtime, i + 1, author)

\* ParameterBuilder._build_runtime: None.items() is an AttributeError,
\* passed.
build_runtime(self, outline) ==
    IF outline.runtime.given
    THEN [self EXCEPT !.bunch =
            RuntimeLoop(@, outline.runtime.dict, 1, self.author)]
    ELSE self

ConditionalKey == "penalty"

\* self._parent._build_conditional(name, parameters): the parent sets a
\* parameter of its own.
parent_build_conditional(name, bunch) == DictSet(bunch, ConditionalKey, name)

\* ParameterBuilder._build_conditional: a parent without the method (or no
\* parent) is an AttributeError, passed.
build_conditional(self, outline) ==
    IF outline.conditional /\ self.parent = "page"
    THEN [self EXCEPT !.bunch = parent_build_conditional(outline.name, @)]
    ELSE self

\* ParameterBuilder.draft
Builder_draft(self) ==
    [self EXCEPT
        !.parameter_types =
            <<"idea", "selected", "required", "runtime", "conditional">>,
        !.drafted = TRUE]

\* getattr(self, '_build_' + parameter_type)(outline = outline)
Build(self, parameter_type, outline) ==
    CASE parameter_type = "idea"        -> build_idea(self, outline)
      [] parameter_type = "selected"    -> build_selected(self, outline)
      [] parameter_type = "required"    -> build_required(self, outline)
      [] parameter_type = "runtime"     -> build_runtime(self, outline)
      [] parameter_type = "conditional" -> build_conditional(self, outline)
      [] OTHER -> [self EXCEPT !.exc = "AttributeError"]

RECURSIVE BuildLoop(_, _, _)
BuildLoop(self, outline, i) ==
    IF i > Len(self.parameter_types) \/ self.exc # "none" THEN self
    ELSE BuildLoop(Build(self, self.parameter_types[i], outline),
                   outline, i + 1)

\* ParameterBuilder.apply: parameter_types exists once draft has run.
Builder_apply(self, outline) ==
    LET start == [self EXCEPT !.status = "applied", !.outline = outline,
                              !.exc = "none"]
    IN  IF ~self.drafted THEN [start EXCEPT !.exc = "AttributeError"]
        ELSE BuildLoop(start, outline, 1)

NewOutline(selected, required, runtime, conditional) ==
    [name |-> "outline", selected |-> selected,
     default |-> <<<<"alpha", "default">>>>,
     required |-> required, runtime |-> runtime, conditional |-> conditional]

NoOutline == NewOutline(SelectedNone, Nothing, Nothing, FALSE)

\* The attributes of a ParameterBuilder before draft runs.
NewBuilder(idea_parameters, author, parent) ==
    [status |-> "new", drafted |-> FALSE, parameter_types |-> <<>>,
     idea_parameters |-> idea_parameters, author |-> author,
     parent |-> parent, bunch |-> <<>>, outline |-> NoOutline,
     exc |-> "none"]

NoBuilder == NewBuilder(Nothing, Nothing, "None")

(***************************************************************************)
(* Parameters: the stored parameters                                       *)
(***************************************************************************)
\* Parameters.__setitem__
Parameters_setitem(self, item, value) ==
    [self EXCEPT !.parameters = DictSet(@, item, value), !.exc = "none",
                 !.status = "constructed"]

\* Parameters.__delitem__: a missing key is passed over.
Parameters_delitem(self, item) ==
    [self EXCEPT
        !.parameters = SelectSeq(@, LAMBDA entry : entry[1] # item),
        !.exc = "none", !.status = "constructed"]

\* Parameters.apply: the method reads self.data_dependents; the field of
\* the dataclass is data_dependent, so the read raises AttributeError
\* before any parameter is added and nothing is returned.
Parameters_apply(self, data) ==
    [self EXCEPT !.status = "applied", !.data = data,
                 !.exc = "AttributeError", !.returned = Nothing]

\* Parameters(parameters, page, data_dependent)
NewParameters(params, data_dependent) ==
    [status |-> "constructed", parameters |-> params,
     data_dependent |-> data_dependent, data |-> <<>>,
     returned |-> Nothing, exc |-> "none"]

NoParameters == [NewParameters(<<>>, Nothing) EXCEPT !.status = "new"]

(***************************************************************************)
(* SimpleCodex.proxify                                                     *)
(***************************************************************************)
\* Attribute names are strings over two letters, written as sequences of
\* letters. The entry 'proxies' of __dict__ holds neither letter: no name
\* below occurs in its key and no replaced key equals it, so proxify
\* leaves it alone and it is kept in the field 'proxies' of the record.
ProxyLetters == {"a", "b"}

\* name occurs in key at position i
Occurs(name, key, i) ==
    /\ i + Len(name) - 1 <= Len(key)
    /\ SubSeq(key, i, i + Len(name) - 1) = name

\* name in key
Contains(name, key) == \E i \in 1..Len(key) : Occurs(name, key, i)

\* key.replace(name, proxy) from position i on: every occurrence, left to
\* right, without overlap.
RECURSIVE str_replace(_, _, _, _)
str_replace(key, name, proxy, i) ==
    IF i > Len(key) THEN <<>>
    ELSE IF Occurs(name, key, i)
    THEN proxy \o str_replace(key, name, proxy, i + Len(name))
    ELSE <<key[i]>> \o str_replace(key, name, proxy, i + 1)

\* The two loops of proxify, from proxy pair p and attribute k on.
RECURSIVE ProxyLoop(_, _, _, _, _)
ProxyLoop(proxy_attributes, proxies, attrs, p, k) ==
    IF p > Len(proxies) THEN proxy_attributes
    ELSE IF k > Len(attrs)
    THEN ProxyLoop(proxy_attributes, proxies, attrs, p + 1, 1)
    ELSE ProxyLoop(
            IF Contains(proxies[p][1], attrs[k][1])
            THEN DictSet(proxy_attributes,
                         str_replace(attrs[k][1], proxies[p][1],
                                     proxies[p][2], 1),
                         attrs[k][2])
            ELSE proxy_attributes,
            proxies, attrs, p, k + 1)

\* SimpleCodex.proxify: without a 'proxies' attribute the AttributeError
\* is passed.
proxify(self) ==
    LET after == IF self.proxies.given
                 THEN DictUpdate(self.attrs,
                         ProxyLoop(<<>>, self.proxies.dict, self.attrs, 1, 1))
                 ELSE self.attrs
    IN  [self EXCEPT !.status = "proxified",
                     !.before = self.attrs,
                     !.attrs = after,
                     !.once = IF self.applied = 0 THEN after ELSE @,
                     !.applied = @ + 1]

\* An instance with its attributes: 'before' is __dict__ as the last
\* proxify call found it, 'once' as the first call left it.
NewInstance(proxies, attrs) ==
    [status |-> "constructed", proxies |-> proxies, attrs |-> attrs,
     before |-> attrs, once |-> attrs, applied |-> 0]

NoInstance == [NewInstance(Nothing, <<>>) EXCEPT !.status = "new"]

(***************************************************************************)
(* Simplify: the controller of the packages                                *)
(***************************************************************************)
\* Simplify.draft: the keys of 'options', in the order of the dictionary.
\* Each value names a module and a class; the base class imports the class
\* lazily, so that publish finds a class to call.
SimplifyOptions == <<"farmer", "chef", "critic", "artist">>

\* package.implement(ingredients = ...): what the package makes of the
\* ingredients, which it keeps in its own 'ingredients' attribute.
package_implement(name, ingredients) == Append(ingredients, name)

Implementation(name, ingredients) ==
    [package |-> name, ingredients |-> ingredients,
     result |-> package_implement(name, ingredients)]

\* Simplify.publish: one instance for every option named in 'packages'.
Simplify_publish(self) ==
    [self EXCEPT !.instantiated =
        SelectSeq(SimplifyOptions, LAMBDA name : name \in self.packages)]

\* The farmer's part with the line that takes over the farmer's
\* ingredients left out.
implement_farmer_stale(self) ==
    IF "farmer" \notin self.packages THEN self
    ELSE IF "farmer" \notin Range(self.instantiated)
    THEN [self EXCEPT !.exc = "AttributeError"]
    ELSE [self EXCEPT !.implemented =
            Append(@, Implementation("farmer", self.ingredients))]

\* The farmer's part of Simplify.implement. self.farmer exists only after
\* publish has set it.
implement_farmer(self) ==
    IF "farmer" \notin self.packages THEN self
    ELSE IF "farmer" \notin Range(self.instantiated)
    THEN [self EXCEPT !.exc = "AttributeError"]
    ELSE LET farmer == Implementation("farmer", self.ingredients)
         IN  [self EXCEPT !.implemented = Append(@, farmer),
                          !.ingredients = farmer.result]

\* The chef's part of Simplify.implement.
implement_chef(self) ==
    IF "chef" \notin self.packages THEN self
    ELSE IF "chef" \notin Range(self.instantiated)
    THEN [self EXCEPT !.exc = "AttributeError"]
    ELSE [self EXCEPT !.implemented =
            Append(@, Implementation("chef", self.ingredients))]

\* Simplify.implement. 'given' is 'ingredients' as the call found it and
\* 'implemented' the implement calls it made on packages.
Simplify_implement(self) ==
    LET begun  == [self EXCEPT !.given = self.ingredients,
                               !.implemented = <<>>, !.last = "implement"]
        farmed == implement_farmer(begun)
    IN  IF farmed.exc # "none" THEN farmed ELSE implement_chef(farmed)

\* Simplify(idea, ingredients, ...) before __post_init__; 'packages' is
\* what the settings of the idea name.
NewSimplify(packages, ingredients, auto_publish, auto_implement) ==
    [status |-> "constructed", packages |-> packages,
     ingredients |-> ingredients, auto_publish |-> auto_publish,
     auto_implement |-> auto_implement, instantiated |-> <<>>,
     implemented |-> <<>>, given |-> ingredients, exc |-> "none",
     last |-> "init", calls |-> 0]

\* Simplify.__post_init__, which is the one of the base class: draft,
\* then publish under auto_publish, then implement under auto_implement.
Simplify_post_init(self) ==
    LET published == IF self.auto_publish THEN Simplify_publish(self)
                     ELSE self
    IN  IF self.auto_implement THEN Simplify_implement(published)
        ELSE published

NoSimplify == [NewSimplify({}, <<>>, FALSE, FALSE) EXCEPT !.status = "new"]

\* The SimpleCodex, ParameterBuilder and Parameters part of the state
\* while another object is exercised.
ContentIdle ==
    /\ codex = NoCodex
    /\ builder = NoBuilder
    /\ parameters = NoParameters
    /\ instance = NoInstance
    /\ simplify = NoSimplify

(***************************************************************************)
(* Data: actions                                                           *)
(***************************************************************************)
ColLists == UNION {[1..n -> ColumnNames] : n \in 0..MaxArgLen}

PrefixLists == {<<>>} \cup {<<p>> : p \in Prefixes}

\* Thresholds in percent: for the share of True, and for correlation.
MeanThresholds == {0, 30}

CorrThresholds == {50, 95}

\* cols of drop_highly_correlated_cols (used only for being empty or not).
CorrCols == {<<>>, <<"b">>}

ColumnDicts ==
    {[given |-> FALSE, items |-> <<>>]} \cup
    {[given |-> TRUE, items |-> <<<<k, t>>>>] :
        k \in ColumnNames, t \in {"bool", "float", "list", "category"}}

\* The Data part of the state while another object is exercised.
DataIdle ==
    /\ df = <<>>
    /\ dropped_columns = <<>>
    /\ verbose = TRUE
    /\ types = NoTypes
    /\ dataErr = "none"
    /\ settings = TRUE
    /\ filled = NoFill

\* State after Data(settings, df or quick_start) is constructed.
DataInit ==
    /\ LoaderIdle
    /\ AuthorIdle
    /\ ProjectIdle
    /\ ContentIdle
    /\ \E f \in Files : df = ReadFile(f)
    /\ dropped_columns = <<>>
    /\ settings \in BOOLEAN
    /\ verbose = set_defaults_verbose(settings)
    /\ types = NoTypes
    /\ dataErr = "none"
    /\ filled = NoFill

DataResult(r) ==
    /\ Len(r.dropped) <= MaxDropped
    /\ df' = r.df
    /\ dropped_columns' = r.dropped
    /\ dataErr' = r.err
    /\ filled' = NoFill
    /\ UNCHANGED <<verbose, types, settings, loaderVars, authorVars,
                   projectVars, contentVars>>

DropCols ==
    \E arg \in DfArgs, prefixes \in PrefixLists, cols \in ColLists :
        DataResult(drop_cols(df, dropped_columns, arg, prefixes, cols))

DropInfrequentCols ==
    \E arg \in DfArgs, bools \in ColLists, threshold \in MeanThresholds :
        DataResult(drop_infrequent_cols(df, dropped_columns, arg, bools,
                                        threshold))

DropHighlyCorrelatedCols ==
    \E arg \in DfArgs, all \in BOOLEAN, cols \in CorrCols,
       threshold \in CorrThresholds :
        DataResult(drop_highly_correlated_cols(df, dropped_columns, arg, all,
                                               cols, threshold))

InitializeSeries ==
    \E arg \in DfArgs, column_dict \in ColumnDicts :
        DataResult(initialize_series(df, dropped_columns, arg, column_dict))

Apply ==
    \E arg \in DfArgs, func \in Funcs :
        DataResult(apply(df, dropped_columns, arg, func))

Load ==
    \E file \in Files, return_df \in BOOLEAN :
        DataResult(load(df, dropped_columns, file, return_df))

DataNext ==
    \/ DropCols
    \/ DropInfrequentCols
    \/ DropHighlyCorrelatedCols
    \/ InitializeSeries
    \/ Apply
    \/ Load

SpecData == DataInit /\ [][DataNext]_vars

\* column_types called with a column list for one bucket and a prefix list
\* for one bucket (the same or another), every other argument defaulted.
TypeColLists == {<<>>, <<"ax">>, <<"b">>}

TypePrefixLists == {<<>>, <<"a">>}

ColumnTypes(colBuckets, prefixBuckets) ==
    \E arg \in DfArgs, cb \in colBuckets, pb \in prefixBuckets,
       cl \in TypeColLists, pl \in TypePrefixLists :
        /\ types' = column_types(df, arg,
                        [b \in BucketNames |-> IF b = cb THEN cl ELSE <<>>],
                        [b \in BucketNames |-> IF b = pb THEN pl ELSE <<>>])
        /\ dataErr' = "none"
        /\ filled' = NoFill
        /\ UNCHANGED <<df, dropped_columns, verbose, settings, loaderVars,
                       authorVars, projectVars, contentVars>>

\* data.smart_fill_na(df)
SmartFillNa ==
    \E arg \in DfArgs, astype_kwargs \in BOOLEAN :
        LET r == smart_fill_na(df, types, arg, astype_kwargs)
        IN  /\ filled' = [called |-> TRUE, given |-> arg.given,
                          calls |-> r.calls]
            /\ dataErr' = r.err
            /\ UNCHANGED <<df, dropped_columns, verbose, types, settings,
                           loaderVars, authorVars, projectVars,
                           contentVars>>

ColumnTypesCall == ColumnTypes(BucketNames, BucketNames)

TypesNext ==
    \/ ColumnTypesCall
    \/ Load

SpecTypes == DataInit /\ [][TypesNext]_vars

\* column_types called before smart_fill_na: a column list for a bool, a
\* float or a str bucket and a prefix list for the cat bucket.
ColumnTypesToFill == ColumnTypes({"bool", "float", "str"}, {"cat"})

FillNext ==
    \/ ColumnTypesToFill
    \/ SmartFillNa
    \/ Load

SpecFill == DataInit /\ [][FillNext]_vars

(***************************************************************************)
(* SimpleLoader: actions                                                   *)
(***************************************************************************)
\* A SimpleLoader instance right after construction: nothing is imported.
LoaderInit ==
    /\ DataIdle
    /\ AuthorIdle
    /\ ProjectIdle
    /\ ContentIdle
    /\ loader \in {l \in Loaders :
                     l.has_default_components
                        \/ DOMAIN l.default_components = {}}
    /\ loadResult = NoResult
    /\ imports = 0
    /\ loads = 0

LoadComponent ==
    \E component \in Components :
        LET r == SimpleLoader_load(loader, component) IN
        /\ loads < MaxLoads
        /\ loadResult' = r
        /\ imports' = imports + r.imported
        /\ loads' = loads + 1
        /\ UNCHANGED <<loader, dataVars, authorVars, projectVars, contentVars>>

LoaderNext == LoadComponent

SpecLoader == LoaderInit /\ [][LoaderNext]_vars

(***************************************************************************)
(* Creator and Author: actions                                             *)
(***************************************************************************)
AuthorInit ==
    /\ DataIdle
    /\ LoaderIdle
    /\ ProjectIdle
    /\ ContentIdle
    /\ creator = NoCreator
    /\ idea \in {sec \in Sections :
                    sec.present \/ \A st \in StepNames : sec.keys[st] = Missing}
    /\ plans = NoPlans

\* Creator(...) or Author(...): the dataclass __init__ and __post_init__.
Construct ==
    \E cls \in {"Creator", "Author"}, package \in PackageArgs,
       options \in {NoOptions, UserDict, UserCodex}, auto_publish \in BOOLEAN :
        /\ creator.status = "new"
        /\ creator' = post_init(NewCreator(cls, package, options, auto_publish))
        /\ UNCHANGED <<idea, plans, dataVars, loaderVars, projectVars,
                       contentVars>>

BuildTechniques ==
    \E steps \in StepLists :
        /\ plans' = [built |-> TRUE, steps |-> steps,
                     plans |-> build_techniques(idea, steps)]
        /\ UNCHANGED <<creator, idea, dataVars, loaderVars, projectVars,
                       contentVars>>

AuthorNext ==
    \/ Construct
    \/ BuildTechniques

SpecAuthor == AuthorInit /\ [][AuthorNext]_vars

(***************************************************************************)
(* Project: actions                                                        *)
(***************************************************************************)
ProjectInit ==
    /\ DataIdle
    /\ LoaderIdle
    /\ AuthorIdle
    /\ ProjectIdle
    /\ ContentIdle

\* Project(...): twin is built from the same arguments and settings with
\* the other value of 'parallelize'.
ConstructProject ==
    \E workers \in WorkerLists, setting \in {Missing, Many(<<"analyst">>)},
       parallelize \in BOOLEAN, flags \in [1..3 -> BOOLEAN] :
        /\ project.status = "new"
        /\ project' = Project_post_init(
                        NewProject(workers, setting, parallelize, flags))
        /\ twin' = Project_post_init(
                        NewProject(workers, setting, ~parallelize, flags))
        /\ UNCHANGED <<dataVars, loaderVars, authorVars, contentVars>>

\* A call of method 'op' begins: 'mark' is the length of the log then.
Called(self, op) ==
    [self EXCEPT !.calls = @ + 1, !.last = op, !.mark = Len(self.log),
                 !.exc = "none", !.attribute = NoAttribute]

MethodCall(p, t) ==
    /\ project.status = "constructed"
    /\ project.calls < MaxCalls
    /\ project' = p
    /\ twin' = t
    /\ UNCHANGED <<dataVars, loaderVars, authorVars, contentVars>>

DraftCall ==
    MethodCall(Project_draft(Called(project, "draft")),
               Project_draft(Called(twin, "draft")))

PublishCall ==
    MethodCall(Project_publish(Called(project, "publish")),
               Project_publish(Called(twin, "publish")))

ApplyCall ==
    \E data \in {NoData, [given |-> TRUE, source |-> "passed"]} :
        MethodCall(Project_apply(Called(project, "apply"), data),
                   Project_apply(Called(twin, "apply"), data))

\* project()
CallCall ==
    MethodCall(Project_call(Called(project, "__call__")),
               Project_call(Called(twin, "__call__")))

SaveArgs ==
    {StrArg("dataset"), StrArg("analyst"), StrArg("missing"),
     ObjArg("dataset")}

\* project.save(attribute, file_path)
SaveCall ==
    \E attribute \in SaveArgs :
        MethodCall(Project_save(Called(project, "save"), attribute),
                   Project_save(Called(twin, "save"), attribute))

ProjectNext ==
    \/ ConstructProject
    \/ DraftCall
    \/ PublishCall
    \/ ApplyCall
    \/ CallCall
    \/ SaveCall

SpecProject == ProjectInit /\ [][ProjectNext]_vars

(***************************************************************************)
(* SimpleCodex: actions                                                    *)
(***************************************************************************)
CodexInit ==
    /\ DataIdle
    /\ LoaderIdle
    /\ AuthorIdle
    /\ ProjectIdle
    /\ ContentIdle

\* The sets of keys the options of a codex may hold.
OptionSets == {TechniqueNames, {"pca"}}

\* codex._draft_techniques() on an instance with the given attributes.
DraftTechniques ==
    \E name \in CodexNames, techniques \in TechniqueArgs,
       settings_idea \in Ideas, options \in OptionSets :
        /\ codex.status = "new"
        /\ codex' = draft_techniques(
                        NewCodex(name, techniques, settings_idea, options))
        /\ UNCHANGED <<builder, parameters, instance, simplify, dataVars, loaderVars,
                       authorVars, projectVars>>

DataValues == {<<>>, <<"raw">>}

\* codex.apply(data)
ApplyTechniquesCall ==
    \E data \in DataValues :
        /\ codex.status # "new"
        /\ codex' = Codex_apply(codex, data)
        /\ UNCHANGED <<builder, parameters, instance, simplify, dataVars, loaderVars,
                       authorVars, projectVars>>

CodexNext ==
    \/ DraftTechniques
    \/ ApplyTechniquesCall

SpecCodex == CodexInit /\ [][CodexNext]_vars

(***************************************************************************)
(* ParameterBuilder: actions                                               *)
(***************************************************************************)
IdeaParameters ==
    {Nothing, Dict(<<<<"alpha", "idea">>>>),
     Dict(<<<<"alpha", "idea">>, <<"depth", "idea">>>>)}

\* The author of the builder: none, or one with a 'seed' attribute.
BuilderAuthors == {Nothing, Dict(<<<<"seed", "author.seed">>>>)}

\* Lists of distinct parameter keys.
SelectedLists ==
    {keys \in UNION {[1..n -> ParamKeys] : n \in 0..MaxSelected} :
        \A i, j \in 1..Len(keys) : i # j => keys[i] # keys[j]}

Outlines ==
    {NewOutline(selected, required, runtime, conditional) :
        selected \in {SelectedNone, SelectedTrue}
                        \cup {SelectedList(keys) : keys \in SelectedLists},
        required \in {Nothing, Dict(<<<<"seed", "required">>>>)},
        runtime \in {Nothing, Dict(<<<<"seed", "seed">>>>),
                     Dict(<<<<"depth", "level">>, <<"seed", "seed">>>>)},
        conditional \in BOOLEAN}

\* A ParameterBuilder with its attributes set.
ConstructBuilder ==
    \E idea_parameters \in IdeaParameters, author \in BuilderAuthors,
       parent \in {"None", "page"} :
        /\ builder.status = "new"
        /\ builder' = [NewBuilder(idea_parameters, author, parent)
                          EXCEPT !.status = "constructed"]
        /\ UNCHANGED <<codex, parameters, instance, simplify, dataVars, loaderVars, authorVars,
                       projectVars>>

\* builder.draft()
DraftBuilder ==
    /\ builder.status # "new"
    /\ builder' = Builder_draft(builder)
    /\ UNCHANGED <<codex, parameters, instance, simplify, dataVars, loaderVars, authorVars,
                   projectVars>>

\* builder.apply(outline)
ApplyBuilder ==
    \E outline \in Outlines :
        /\ builder.status # "new"
        /\ builder' = Builder_apply(builder, outline)
        /\ UNCHANGED <<codex, parameters, instance, simplify, dataVars, loaderVars, authorVars,
                       projectVars>>

BuilderNext ==
    \/ ConstructBuilder
    \/ DraftBuilder
    \/ ApplyBuilder

SpecBuilder == CodexInit /\ [][BuilderNext]_vars

(***************************************************************************)
(* Parameters: actions                                                     *)
(***************************************************************************)
ParameterValues == {"1", "2"}

DataDependents ==
    {Nothing, Dict(<<<<"depth", "rows">>>>),
     Dict(<<<<"depth", "rows">>, <<"seed", "columns">>>>)}

\* The data objects passed to apply, by their attributes.
DataObjects ==
    {<<<<"rows", "10">>, <<"columns", "3">>>>,
     <<<<"rows", "20">>, <<"columns", "3">>>>}

ConstructParameters ==
    \E params \in {<<>>, <<<<"alpha", "1">>>>},
       data_dependent \in DataDependents :
        /\ parameters.status = "new"
        /\ parameters' = NewParameters(params, data_dependent)
        /\ UNCHANGED <<codex, builder, instance, simplify, dataVars, loaderVars, authorVars,
                       projectVars>>

\* parameters[item] = value
SetItem ==
    \E item \in ParamKeys, value \in ParameterValues :
        /\ parameters.status # "new"
        /\ parameters' = Parameters_setitem(parameters, item, value)
        /\ UNCHANGED <<codex, builder, instance, simplify, dataVars, loaderVars, authorVars,
                       projectVars>>

\* del parameters[item]
DelItem ==
    \E item \in ParamKeys :
        /\ parameters.status # "new"
        /\ parameters' = Parameters_delitem(parameters, item)
        /\ UNCHANGED <<codex, builder, instance, simplify, dataVars, loaderVars, authorVars,
                       projectVars>>

\* parameters.apply(data)
ApplyParameters ==
    \E data \in DataObjects :
        /\ parameters.status # "new"
        /\ parameters' = Parameters_apply(parameters, data)
        /\ UNCHANGED <<codex, builder, instance, simplify, dataVars, loaderVars, authorVars,
                       projectVars>>

ParametersNext ==
    \/ ConstructParameters
    \/ SetItem
    \/ DelItem
    \/ ApplyParameters

SpecParameters == CodexInit /\ [][ParametersNext]_vars

(***************************************************************************)
(* SimpleCodex.proxify: actions                                            *)
(***************************************************************************)
ProxyStrings == UNION {[1..n -> ProxyLetters] : n \in 1..2}

ProxyNames == {<<"a">>, <<"b">>, <<"a", "b">>}

\* 'proxies': not set, empty, or one or two pairs with distinct names.
ProxyMappings ==
    {Nothing, Dict(<<>>)}
    \cup {Dict(<<<<name, proxy>>>>) :
            name \in ProxyNames, proxy \in ProxyStrings}
    \cup {Dict(<<pair1, pair2>>) :
            pair1 \in ProxyNames \X ProxyStrings,
            pair2 \in {pair \in ProxyNames \X ProxyStrings :
                          pair[1] = <<"b">>} }

\* __dict__: up to two attributes with distinct keys.
AttributeDicts ==
    {<<>>}
    \cup {<<<<key, 1>>>> : key \in ProxyStrings}
    \cup {<<<<key1, 1>>, <<key2, value>>>> :
            key1 \in ProxyStrings, key2 \in ProxyStrings, value \in {1, 2}}

\* An instance whose draft has set its attributes.
ConstructInstance ==
    \E proxies \in ProxyMappings, attrs \in AttributeDicts :
        /\ instance.status = "new"
        /\ \A i, j \in 1..Len(attrs) : i # j => attrs[i][1] # attrs[j][1]
        /\ \A i, j \in 1..Len(proxies.dict) :
              i # j => proxies.dict[i][1] # proxies.dict[j][1]
        /\ instance' = NewInstance(proxies, attrs)
        /\ UNCHANGED <<codex, builder, parameters, simplify, dataVars, loaderVars,
                       authorVars, projectVars>>

\* instance.proxify()
Proxify ==
    /\ instance.status # "new"
    /\ instance.applied < MaxApplied
    /\ instance' = proxify(instance)
    /\ UNCHANGED <<codex, builder, parameters, simplify, dataVars, loaderVars,
                   authorVars, projectVars>>

ProxyNext ==
    \/ ConstructInstance
    \/ Proxify

SpecProxy == CodexInit /\ [][ProxyNext]_vars

(***************************************************************************)
(* Simplify: actions                                                       *)
(***************************************************************************)
IngredientValues == {<<"csv">>, <<"frame">>}

\* Simplify(idea = ..., ingredients = ..., auto_publish = ...,
\* auto_implement = ...)
ConstructSimplify ==
    \E packages \in SUBSET Range(SimplifyOptions),
       ingredients \in IngredientValues,
       auto_publish \in BOOLEAN, auto_implement \in BOOLEAN :
        /\ simplify.status = "new"
        /\ simplify' = Simplify_post_init(
              NewSimplify(packages, ingredients, auto_publish,
                          auto_implement))
        /\ UNCHANGED <<codex, builder, parameters, instance, dataVars,
                       loaderVars, authorVars, projectVars>>

\* simplify.publish()
PublishSimplify ==
    /\ simplify.status # "new"
    /\ simplify.calls < MaxCalls
    /\ simplify' = Simplify_publish(
          [simplify EXCEPT !.calls = @ + 1, !.last = "publish",
                           !.exc = "none"])
    /\ UNCHANGED <<codex, builder, parameters, instance, dataVars,
                   loaderVars, authorVars, projectVars>>

\* simplify.implement()
ImplementSimplify ==
    /\ simplify.status # "new"
    /\ simplify.calls < MaxCalls
    /\ simplify' = Simplify_implement(
          [simplify EXCEPT !.calls = @ + 1, !.exc = "none"])
    /\ UNCHANGED <<codex, builder, parameters, instance, dataVars,
                   loaderVars, authorVars, projectVars>>

SimplifyNext ==
    \/ ConstructSimplify
    \/ PublishSimplify
    \/ ImplementSimplify

SpecSimplify == CodexInit /\ [][SimplifyNext]_vars

(***************************************************************************)
(* Claims about Project                                                    *)
(***************************************************************************)
LogIndex(op) == {i \in 1..Len(project.log) : project.log[i].op = op}

\* C1: a Project constructed with auto_draft, auto_publish and auto_apply
\* creates the library first, then drafts every worker, then publishes
\* every worker, then applies: no publish precedes a draft and no apply
\* precedes a publish.
C1_DraftPublishApplyOrder ==
    (/\ project.status = "constructed"
     /\ project.calls = 0
     /\ project.auto_draft /\ project.auto_publish /\ project.auto_apply)
    => (/\ project.log[1].op = "library"
        /\ \A w \in Range(project.workers) :
              /\ \E i \in LogIndex("draft") : project.log[i].worker = w
              /\ \E i \in LogIndex("publish") : project.log[i].worker = w
              /\ \E i \in LogIndex("apply") : project.log[i].worker = w
        /\ \A i \in LogIndex("draft") : \A j \in LogIndex("publish") : i < j
        /\ \A i \in LogIndex("publish") : \A j \in LogIndex("apply") : i < j
        /\ \A i \in LogIndex("library") :
              \A j \in 1..Len(project.log) : i <= j)

\* A Project of two workers constructed with the three flags set.
C1_Witness ==
    /\ project.status = "constructed"
    /\ project.calls = 0
    /\ project.auto_draft /\ project.auto_publish /\ project.auto_apply
    /\ Len(project.workers) >= 2
    /\ Cardinality(LogIndex("apply")) >= 2

C21_WorkersAppliedInLibraryOrder ==
    (project.status = "constructed" /\ project.last = "apply")
    => LET calls == project.applications
           n     == Len(calls)
       IN  /\ n = Len(project.library)
           /\ \A i \in 1..n :
                 /\ calls[i].worker = BookNames(calls[1].library)[i]
                 /\ calls[i].data =
                        IF i > 1 THEN calls[i - 1].result.dataset
                        ELSE IF project.data.given
                        THEN Dataset(project.data.source)
                        ELSE project.stored
                 /\ i > 1 => calls[i].library = calls[i - 1].result.library
           /\ n > 0 => /\ project.dataset = calls[n].result.dataset
                       /\ project.library = calls[n].result.library

\* apply was called without data on a project whose stored dataset had
\* been worked on, and applied two workers.
C21_Witness ==
    /\ project.status = "constructed"
    /\ project.last = "apply"
    /\ ~project.data.given
    /\ project.stored.applied # <<>>
    /\ Len(project.applications) >= 2

LogAfter(op, w) ==
    {i \in LogIndex(op) : i > project.mark /\ project.log[i].worker = w}

\* C11: a call of a constructed Project as a function returns (raises
\* nothing) and, for every worker, has drafted, then published, then
\* applied during the call.
C11_CallDraftsPublishesApplies ==
    (project.status = "constructed" /\ project.last = "__call__")
    => (/\ project.exc = "none"
        /\ \A w \in Range(project.workers) :
              /\ LogAfter("draft", w) # {}
              /\ LogAfter("publish", w) # {}
              /\ LogAfter("apply", w) # {}
              /\ \A i \in LogAfter("draft", w) :
                    \A j \in LogAfter("publish", w) : i < j
              /\ \A i \in LogAfter("publish", w) :
                    \A j \in LogAfter("apply", w) : i < j)

\* C12: save called with a string that names no attribute of the project,
\* of its manager or of its library raises AttributeError.
C12_SaveUnknownNameRaises ==
    (/\ project.last = "save"
     /\ project.attribute.kind = "str"
     /\ Lookup(project, project.attribute.name) = "AttributeError")
    => project.exc = "AttributeError"

\* C13: save called with a string naming an existing attribute hands that
\* attribute's value to filer.save, once, as a call with the object does.
C13_SaveByNameSavesValue ==
    (/\ project.last = "save"
     /\ project.attribute.kind = "str"
     /\ Lookup(project, project.attribute.name) # "AttributeError")
    => (/\ Cardinality(LogAfter("save", project.attribute.name)) = 1
        /\ project.exc = "none")

(***************************************************************************)
(* Claims about SimpleCodex                                                *)
(***************************************************************************)
\* The settings value stored under '<name>_steps' / '<name>_techniques'.
StepsSetting ==
    IF codex.name = "chef" THEN codex.idea["chef_steps"]
    ELSE codex.idea["farmer_steps"]

TechniquesSetting ==
    IF codex.name = "chef" THEN codex.idea["chef_techniques"]
    ELSE codex.idea["farmer_techniques"]

\* C17: after _draft_techniques the techniques are those the caller passed,
\* as a list; with none passed, the settings value '<name>_steps'; without
\* that, the settings value '<name>_techniques'; and ['none'] when the
\* settings have neither.
C17_TechniquesFallback ==
    (codex.status # "new")
    => IF codex.passed # NoTechniques
       THEN codex.techniques = Many(codex.passed.items)
       ELSE IF StepsSetting # Missing
       THEN codex.techniques = StepsSetting
       ELSE IF TechniquesSetting # Missing
       THEN codex.techniques = TechniquesSetting
       ELSE codex.techniques = Many(<<"none">>)

\* No techniques were passed and the settings hold both values, which
\* differ.
C17_Witness ==
    /\ codex.status = "drafted"
    /\ codex.passed = NoTechniques
    /\ StepsSetting # Missing
    /\ TechniquesSetting # Missing
    /\ StepsSetting # TechniquesSetting

\* C20: apply calls the listed techniques in list order, each once, the
\* first with the data given and each later one with the data the one
\* before it returned, and returns what the last returned; with an empty
\* list it returns the data given.
C20_TechniquesAppliedInOrder ==
    (/\ codex.status = "applied"
     /\ codex.techniques.kind = "list"
     /\ Range(codex.techniques.items) \subseteq codex.options)
    => LET techniques == codex.techniques.items
           calls      == codex.calls
       IN  /\ codex.exc = "none"
           /\ Len(calls) = Len(techniques)
           /\ \A i \in 1..Len(calls) :
                 /\ calls[i].key = techniques[i]
                 /\ calls[i].data = IF i = 1 THEN codex.given
                                    ELSE calls[i - 1].result
           /\ codex.returned = IF techniques = <<>> THEN codex.given
                               ELSE calls[Len(calls)].result

\* Two different techniques were applied to data that was not empty.
C20_Witness ==
    /\ codex.status = "applied"
    /\ codex.exc = "none"
    /\ Len(codex.calls) >= 2
    /\ codex.calls[1].key # codex.calls[2].key
    /\ codex.given # <<>>

(***************************************************************************)
(* Claims about ParameterBuilder and Parameters                            *)
(***************************************************************************)
SelectedKeys == Range(builder.outline.selected.items)

C23_RuntimeMissingRaises ==
    (/\ builder.status = "applied"
     /\ builder.drafted
     /\ builder.outline.runtime.given)
    => LET runtime == builder.outline.runtime.dict
           author  == builder.author
           lacking == {i \in 1..Len(runtime) :
                          ~author.given \/ runtime[i][2] \notin Keys(author.dict)}
       IN  IF lacking # {}
           THEN builder.exc = "AttributeError"
           ELSE /\ builder.exc = "none"
                /\ \A i \in 1..Len(runtime) :
                      /\ runtime[i][1] \in Keys(builder.bunch)
                      /\ Get(builder.bunch, runtime[i][1]) =
                             Get(author.dict, runtime[i][2])

\* C16: after apply(data), for every entry (key, attribute name) of the
\* data-dependent mapping the returned parameters map key to the value of
\* that attribute on data, and every other parameter keeps its value.
C16_DataDependentsAdded ==
    (parameters.status = "applied")
    => LET dependents == parameters.data_dependent.dict
           returned   == parameters.returned.dict
       IN  /\ parameters.exc = "none"
           /\ parameters.returned.given
           /\ \A i \in 1..Len(dependents) :
                 /\ dependents[i][1] \in Keys(returned)
                 /\ Get(returned, dependents[i][1]) =
                        Get(parameters.data, dependents[i][2])
           /\ \A key \in Keys(parameters.parameters) \ Keys(dependents) :
                 /\ key \in Keys(returned)
                 /\ Get(returned, key) = Get(parameters.parameters, key)

(***************************************************************************)
(* Claims about Creator and Author                                         *)
(***************************************************************************)
\* The technique list the settings give for step i of the last call.
TechniquesOf(i) ==
    LET value == idea.keys[plans.steps[i]]
    IN  IF idea.present /\ value # Missing THEN value.items ELSE <<"none">>

RECURSIVE CountPlans(_)
CountPlans(i) ==
    IF i > Len(plans.steps) THEN 1
    ELSE Len(TechniquesOf(i)) * CountPlans(i + 1)

\* C6: _build_techniques returns exactly one plan per element of the
\* Cartesian product of the per-step technique lists, each plan holding one
\* technique per step in the order of steps; a step whose key is missing
\* contributes the single technique 'none' and leaves the number of plans
\* unchanged.
C6_PlansAreCartesianProduct ==
    plans.built =>
        LET n == Len(plans.steps)
            choices == {f \in [1..n -> {"a", "b", "c", "none"}] :
                            \A i \in 1..n : f[i] \in Range(TechniquesOf(i))}
        IN  /\ Len(plans.plans) = CountPlans(1)
            /\ \A k \in 1..Len(plans.plans) : plans.plans[k] \in choices
            /\ \A f \in choices :
                 Cardinality({k \in 1..Len(plans.plans) :
                                plans.plans[k] = f}) = 1
            /\ \A i \in 1..n :
                 (~idea.present \/ idea.keys[plans.steps[i]] = Missing) =>
                    \A k \in 1..Len(plans.plans) : plans.plans[k][i] = "none"

\* Several plans over two steps, one of which has no techniques key.
C6_Witness ==
    /\ plans.built
    /\ Len(plans.steps) >= 2
    /\ Len(plans.plans) >= 2
    /\ idea.present
    /\ \E i \in 1..Len(plans.steps) : idea.keys[plans.steps[i]] = Missing

\* C9: a Creator constructed with a known package name and no options
\* finishes construction with the package's DEFAULT_OPTIONS as options.
C9_PackageGivesDefaultOptions ==
    (/\ creator.status # "new"
     /\ creator.cls = "Creator"
     /\ creator.package \in KnownPackages
     /\ creator.passed = NoOptions)
    => (/\ creator.status = "constructed"
        /\ creator.options = DefaultCodex(creator.package))

\* C10: options passed when a Creator or Author is constructed are the
\* options in effect after construction.
C10_PassedOptionsKept ==
    (creator.status # "new" /\ Truthy(creator.passed))
    => (/\ creator.status = "constructed"
        /\ creator.options.of = creator.passed.of)

\* C18: constructing a Creator with neither options nor a package raises
\* AttributeError, and neither draft nor publish has run by then.
C18_NeitherOptionsNorPackage ==
    (/\ creator.status # "new"
     /\ creator.cls = "Creator"
     /\ creator.package = NoPackage
     /\ creator.passed = NoOptions)
    => (/\ creator.status = "raised"
        /\ creator.exc = "AttributeError"
        /\ creator.ran = <<>>
        /\ ~creator.drafted)

\* Such a Creator, one that was asked to publish, has raised.
C18_Witness ==
    /\ creator.status = "raised"
    /\ creator.cls = "Creator"
    /\ creator.package = NoPackage
    /\ creator.passed = NoOptions
    /\ creator.auto_publish

(***************************************************************************)
(* Claims about SimpleLoader                                               *)
(***************************************************************************)
LastAttr == loader.attrs[loadResult.component]

\* C5: after a successful load of a component named by a string, the
\* resolved object is the component attribute of the instance, so that a
\* later load returns it without importing.
C5_LoadedComponentCached ==
    (loadResult.kind = "returned" /\ loadResult.imported > 0) =>
        /\ LastAttr.kind = "obj"
        /\ LastAttr = loadResult.value

FoundIn(module, name) == ImportAttr(module, name).ok

\* C8: load of a string-named component found neither in module nor in
\* default_module, on an instance without default_components or without an
\* entry for the component, raises ImportError and no other exception.
C8_ImportErrorWhenNotFound ==
    (/\ loadResult.kind # "none"
     /\ LastAttr.kind = "str"
     /\ ~FoundIn(loader.module, LastAttr.id)
     /\ ~FoundIn(loader.default_module, LastAttr.id)
     /\ \/ ~loader.has_default_components
        \/ loadResult.component \notin DOMAIN loader.default_components)
    => (loadResult.kind = "raised" /\ loadResult.exc = "ImportError")

(***************************************************************************)
(* Claims about Data                                                       *)
(***************************************************************************)
\* C19: after construction the verbose flag of a Data instance is the
\* 'verbose' setting: false when the setting is false, true when true.
C19_VerboseFromSettings == verbose = settings

\* C14: smart_fill_na on a Data instance whose column_types never ran
\* raises nothing and makes, for each column, the fillna call of the
\* column's inferred datatype.
C14_FillWithoutColumnDict ==
    (filled.called /\ ~types.set)
    => (/\ dataErr = "none"
        /\ filled.calls =
              FillByDtype(IF filled.given THEN ExtDf ELSE df, 1, <<>>).calls)

\* C2: for every call of drop_cols, drop_infrequent_cols and
\* drop_highly_correlated_cols, and for every other Data operation, the
\* list dropped_columns before the call is a prefix of the list after it.
C2_DroppedColumnsOnlyGrow ==
    [][IsPrefix(dropped_columns, dropped_columns')]_vars

\* Two drop calls have recorded columns, one after the other.
C2_Witness ==
    /\ Len(dropped_columns) >= 2
    /\ dataErr = "none"
    /\ ~HasCol(df, dropped_columns[1])

\* C3: after any sequence of Data operations no column name recorded in
\* dropped_columns is a column of the instance's df.
C3_DroppedNeverInDf ==
    \A i \in 1..Len(dropped_columns) : ~HasCol(df, dropped_columns[i])

Buckets(t) ==
    <<t.bool_cols, t.cat_cols, t.float_cols, t.int_cols, t.interact_cols,
      t.list_cols, t.str_cols>>

\* C4: after column_types returns, every column of the dataframe is in
\* exactly one of the seven column lists.
C4_ExactlyOneBucket ==
    types.set =>
        \A c \in Range(types.all_cols) :
            Cardinality({k \in 1..7 : c \in Range(Buckets(types)[k])}) = 1

(***************************************************************************)
(* Claims about SimpleCodex.proxify                                        *)
(***************************************************************************)
\* C24: a proxify call keeps every attribute it found with its value and,
\* for each proxy pair (name, proxy) and each attribute it found whose key
\* contains name, leaves an attribute under the key with name replaced by
\* proxy that holds the same value; after a second call the attribute
\* dictionary is the one the first call left.
C24_ProxifyKeepsAddsIdempotent ==
    (instance.status = "proxified")
    => LET before  == instance.before
           attrs   == instance.attrs
           proxies == instance.proxies.dict
       IN  /\ \A k \in 1..Len(before) :
                 /\ before[k][1] \in Keys(attrs)
                 /\ Get(attrs, before[k][1]) = before[k][2]
           /\ \A p \in 1..Len(proxies), k \in 1..Len(before) :
                 Contains(proxies[p][1], before[k][1])
                 => LET key == str_replace(before[k][1], proxies[p][1],
                                           proxies[p][2], 1)
                    IN  /\ key \in Keys(attrs)
                        /\ Get(attrs, key) = before[k][2]
           /\ instance.applied >= 2 => Range(attrs) = Range(instance.once)

====
